---- MODULE Spec2Model ----
(***************************************************************************)
(* SPOKIO backend (src/server.js): the real-time presence table, the       *)
(* socket.io group rooms and the flat-file record store behind the HTTP    *)
(* API and the socket events.                                              *)
(*                                                                         *)
(* Node runs a handler to completion up to its next await.  The handlers   *)
(* modelled here are synchronous (fs.readFileSync / fs.writeFileSync) and  *)
(* are one action each, except register and login, which await bcryptjs   *)
(* and are one action before the await and one after it.                   *)
(***************************************************************************)
EXTENDS Integers, Sequences, FiniteSets, TLC

\* ------------------------------------------------------------------ bounds
NumConns == 2        \* sockets that may ever connect
NumUsers == 2        \* registered users (valid tokens for the HTTP API)
NumGroups == 2       \* group ids that may ever be generated or named
MaxMessages == 2     \* cap on the length of the messages collection
MaxUserGroups == 2   \* cap on the length of a user's communityGroups
MaxIoFaults == 1     \* readData/writeData calls that may throw in one run
MaxEvents == 5       \* requests and socket events handled in one run of Spec
MaxDirect == 2       \* cap on the length of the directMessages collection
NumAlerts == 2       \* alert ids that may ever be generated or named
MaxClock == 4        \* readings of new Date() taken by the alert handlers
NumReqs == 3         \* register and login requests sent in one run

Conns == 1..NumConns
Users == 1..NumUsers
GroupIds == 1..NumGroups
AlertIds == 1..NumAlerts
\* every id a direct message may get within the bounds
DirectIds == 1..(MaxDirect * (MaxIoFaults + 1))
\* register and login requests of one run
Reqs == 1..NumReqs
\* communityGroups of every user in an array read from an empty users.json.
NoGroups == [u \in Users |-> <<>>]

\* A request in flight or answered: the handler's local variables; its
\* `users` array carries the account fields and communityGroups the
\* communityGroups of its records.
Request(pc, kind, snapshot, index, username, email, password, code, id) ==
    [pc |-> pc, kind |-> kind, users |-> snapshot, index |-> index,
     username |-> username, email |-> email, password |-> password,
     status |-> code, id |-> id, communityGroups |-> NoGroups]

\* a request that has not been sent
Idle == Request("idle", "", <<>>, 0, "", "", "", 0, 0)

\* socket.userId of a socket that never announced (undefined), and the falsy
\* payload of a 'user-join' emitted without an argument.
Undefined == 0
\* connectedUsers.get(k) of an absent key.
NoSocket == 0
\* identities a client may announce: the socket layer checks nothing.
AnnounceIds == Users \cup {Undefined}

Contents == {"hi"}
NoContent == "<absent>"

VARIABLES
    status,          \* socket -> "idle" | "open" | "closed"
    sockUserId,      \* socket -> socket.userId
    connectedUsers,  \* the connectedUsers Map: identity -> socket id / NoSocket
    rooms,           \* socket.io rooms: group id -> sockets in `group-<id>`
    subscribed,      \* history: <<socket, group id>> joined by the socket and
                     \* not left since, while the socket is connected
    groups,          \* groups.json: sequence of group records
    userGroups,      \* users.json: user -> communityGroups
    messages,        \* messages.json: sequence of message records
    nextGroupId,     \* generateId(): ids already handed out to groups
    faults,          \* readData/writeData calls that have thrown so far
    emitted,         \* the socket.io emission of the latest handler
    resp,            \* the HTTP status of the latest handler (0: not HTTP)
    events,          \* requests and socket events handled so far (Spec only)
    directMessages,  \* direct-messages.json: sequence of direct-message records
    emergency,       \* emergency.json: sequence of alert records
    nextAlertId,     \* generateId(): ids already handed out to alerts
    clock,           \* new Date(): the readings taken so far
    nextDirectId,    \* generateId(): ids already handed out to direct messages
    users,           \* users.json: sequence of account records
    inflight,        \* register/login requests: request -> where it stands
    nextUserId,      \* generateId(): ids already handed out to accounts
    running          \* the Node process is running

vars == <<status, sockUserId, connectedUsers, rooms, subscribed, groups, userGroups,
          messages, nextGroupId, faults, emitted, resp, events,
          directMessages, emergency, nextAlertId, clock, nextDirectId,
          users, inflight, nextUserId, running>>

presenceVars == <<sockUserId, connectedUsers>>
roomVars == <<rooms, subscribed>>
\* direct-messages.json and emergency.json, with the id and clock sources of
\* their handlers.
\* The account records of users.json and the requests that work on them.
accountVars == <<users, inflight, nextUserId>>
otherFiles == <<directMessages, nextDirectId, emergency, nextAlertId, clock,
                accountVars, running>>
storeVars == <<groups, userGroups, messages, nextGroupId, faults, otherFiles>>

\* ------------------------------------------------------------ record store
\* A readData that never finds the stored records.
ReadDataEmpty(file, ok) == <<>>

\* A readData that hands back the stored records although the read failed.
ReadDataThrough(file, ok) == file

\* readData: the parsed file, or [] when the read or the parse throws.
ReadData(file, ok) == IF ok THEN file ELSE <<>>

\* A writeData whose failed write leaves an empty file behind.
WriteDataTruncating(file, data, ok) == IF ok THEN data ELSE <<>>

\* writeData: the file becomes `data`, or stays as it was when the write throws.
WriteData(file, data, ok) == IF ok THEN data ELSE file

\* Array.prototype.push
Push(arr, x) == Append(arr, x)

\* A membership test that never finds the element.
IncludesNever(arr, x) == FALSE

\* Array.prototype.includes
Includes(arr, x) == \E i \in 1..Len(arr) : arr[i] = x

\* Array.prototype.filter(id => id !== x)
RECURSIVE FilterOut(_, _)
FilterOut(arr, x) ==
    IF arr = <<>> THEN <<>>
    ELSE IF Head(arr) = x THEN FilterOut(Tail(arr), x)
    ELSE <<Head(arr)>> \o FilterOut(Tail(arr), x)

\* Array.prototype.findIndex(g => g.id === id); 0 stands for -1.
FindIndex(arr, id) ==
    IF \E i \in 1..Len(arr) : arr[i].id = id
    THEN CHOOSE i \in 1..Len(arr) :
            arr[i].id = id /\ \A j \in 1..(i - 1) : arr[j].id # id
    ELSE 0

\* The outcomes of the readData/writeData calls one handler makes, by call
\* site: TRUE when the call succeeds.
IoOutcomes(calls) == [calls -> BOOLEAN]
Failed(io) == Cardinality({k \in DOMAIN io : ~io[k]})

\* ------------------------------------------------------------ socket.io
OpenConns == {c \in Conns : status[c] = "open"}

NoEmit == [event |-> "none", to |-> {}, groupId |-> 0, userId |-> 0,
           content |-> NoContent, state |-> "", total |-> 0]

\* io.to(`group-${groupId}`): the sockets currently in the room.
Room(groupId) == rooms[groupId]

\* io.to(socketId): the room socket.io opens for every connected socket.
SocketRoom(socketId) == {c \in OpenConns : c = socketId}

\* A count of the connected sockets that some entry maps to.
OnlineCountSockets(table) ==
    Cardinality({c \in OpenConns : \E u \in AnnounceIds : table[u] = c})

\* connectedUsers.size
OnlineCount(table) == Cardinality({u \in AnnounceIds : table[u] # NoSocket})

Init ==
    /\ status = [c \in Conns |-> "idle"]
    /\ sockUserId = [c \in Conns |-> Undefined]
    /\ connectedUsers = [u \in AnnounceIds |-> NoSocket]
    /\ rooms = [g \in GroupIds |-> {}]
    /\ subscribed = {}
    /\ groups = <<>>
    /\ userGroups = [u \in Users |-> <<>>]
    /\ messages = <<>>
    /\ nextGroupId = 1
    /\ faults = 0
    /\ emitted = NoEmit
    /\ resp = 0
    /\ events = 0
    /\ directMessages = <<>>
    /\ emergency = <<>>
    /\ nextAlertId = 1
    /\ clock = 0
    /\ nextDirectId = 1
    /\ users = <<>>
    /\ inflight = [r \in Reqs |-> Idle]
    /\ nextUserId = 1
    /\ running = TRUE

\* ------------------------------------------------------ socket.io handlers
\* io.on('connection'); sockets are numbered in the order they connect.
Connect(c) ==
    /\ status[c] = "idle"
    /\ \A d \in Conns : d < c => status[d] # "idle"
    /\ status' = [status EXCEPT ![c] = "open"]
    /\ emitted' = NoEmit
    /\ resp' = 0
    /\ UNCHANGED <<presenceVars, roomVars, storeVars>>

\* An announce that also drops the other entries of the announcing socket.
AnnounceRebinding(table, userId, c) ==
    [u \in AnnounceIds |->
        IF u = userId THEN c ELSE IF table[u] = c THEN NoSocket ELSE table[u]]

\* An announce that keeps the entry an identity already has.
AnnounceIfAbsent(table, userId, c) ==
    IF table[userId] = NoSocket THEN [table EXCEPT ![userId] = c] ELSE table

\* connectedUsers.set(userId, socket.id)
Announce(table, userId, c) == [table EXCEPT ![userId] = c]

\* socket.on('user-join')
UserJoin(c, userId) ==
    /\ status[c] = "open"
    /\ connectedUsers' = Announce(connectedUsers, userId, c)
    /\ sockUserId' = [sockUserId EXCEPT ![c] = userId]
    /\ emitted' = [NoEmit EXCEPT !.event = "user-status",
                                 !.to = OpenConns,
                                 !.userId = userId,
                                 !.state = "online",
                                 !.total = OnlineCount(connectedUsers')]
    /\ resp' = 0
    /\ UNCHANGED <<status, roomVars, storeVars>>

\* socket.join(`group-${groupId}`)
SocketJoin(rm, c, groupId) == [rm EXCEPT ![groupId] = @ \cup {c}]

\* A leave that forgets to take the socket out of the room.
SocketLeaveNothing(rm, c, groupId) == rm

\* socket.leave(`group-${groupId}`)
SocketLeave(rm, c, groupId) == [rm EXCEPT ![groupId] = @ \ {c}]

\* socket.on('join-group')
JoinGroup(c, groupId) ==
    /\ status[c] = "open"
    /\ rooms' = SocketJoin(rooms, c, groupId)
    /\ subscribed' = subscribed \cup {<<c, groupId>>}
    /\ emitted' = NoEmit
    /\ resp' = 0
    /\ UNCHANGED <<status, presenceVars, storeVars>>

\* socket.on('leave-group')
LeaveGroup(c, groupId) ==
    /\ status[c] = "open"
    /\ rooms' = SocketLeave(rooms, c, groupId)
    /\ subscribed' = subscribed \ {<<c, groupId>>}
    /\ emitted' = NoEmit
    /\ resp' = 0
    /\ UNCHANGED <<status, presenceVars, storeVars>>

\* A typing notice sent to every connected socket.
EmitUserTypingAll(groupId, isTyping) ==
    [NoEmit EXCEPT !.event = "user-typing", !.to = OpenConns,
                   !.groupId = groupId,
                   !.state = IF isTyping THEN "isTyping" ELSE "notTyping"]

\* io.to(`group-${groupId}`).emit('user-typing', {username, isTyping})
EmitUserTyping(groupId, isTyping) ==
    [NoEmit EXCEPT !.event = "user-typing", !.to = Room(groupId),
                   !.groupId = groupId,
                   !.state = IF isTyping THEN "isTyping" ELSE "notTyping"]

\* socket.on('user-typing'), with a payload that is an object.
UserTyping(c, groupId) ==
    /\ status[c] = "open"
    /\ emitted' = EmitUserTyping(groupId, TRUE)
    /\ resp' = 0
    /\ UNCHANGED <<status, presenceVars, roomVars, storeVars>>

\* socket.on('user-stop-typing'), with a payload that is an object.
UserStopTyping(c, groupId) ==
    /\ status[c] = "open"
    /\ emitted' = EmitUserTyping(groupId, FALSE)
    /\ resp' = 0
    /\ UNCHANGED <<status, presenceVars, roomVars, storeVars>>

\* socket.on('direct-message')
DirectMessage(c, recipientId, content) ==
    /\ status[c] = "open"
    /\ LET recipientSocket == connectedUsers[recipientId]
       IN  emitted' = IF recipientSocket # NoSocket
                      THEN [NoEmit EXCEPT !.event = "new-direct-message",
                                          !.to = SocketRoom(recipientSocket),
                                          !.userId = sockUserId[c],
                                          !.content = content]
                      ELSE NoEmit
    /\ resp' = 0
    /\ UNCHANGED <<status, presenceVars, roomVars, storeVars>>

\* The events whose handlers destructure or dereference their payload
\* outside any try block.
UnguardedEvents == {"user-typing", "user-stop-typing", "emergency-alert",
                    "direct-message"}

\* One of the unguarded events arrives with a payload that is undefined or
\* null: `const {..} = data` / `data.location` throws a TypeError that no
\* handler catches, and the Node process exits.  Every connection is lost and
\* with it the in-memory presence table and rooms; the files stay.
MalformedPayload(c, event) ==
    /\ status[c] = "open"
    /\ running' = FALSE
    /\ status' = [d \in Conns |-> IF status[d] = "open" THEN "closed" ELSE status[d]]
    /\ connectedUsers' = [u \in AnnounceIds |-> NoSocket]
    /\ rooms' = [g \in GroupIds |-> {}]
    /\ subscribed' = {}
    /\ emitted' = NoEmit
    /\ resp' = 0
    /\ UNCHANGED <<sockUserId, groups, userGroups, messages, nextGroupId, faults,
                   directMessages, nextDirectId, emergency, nextAlertId, clock,
                   users, inflight, nextUserId>>

\* A removal by position, entries.splice(entries.indexOf(userId), 1): when the
\* identity has no entry, indexOf is -1 and the last entry is removed instead.
OnDisconnectTableSplice(table, userId) ==
    LET present == {u \in AnnounceIds : table[u] # NoSocket}
        last == CHOOSE u \in present : \A v \in present : v <= u
    IN  IF userId = Undefined THEN table
        ELSE IF table[userId] # NoSocket THEN [table EXCEPT ![userId] = NoSocket]
        ELSE IF present = {} THEN table
        ELSE [table EXCEPT ![last] = NoSocket]

\* The disconnect handler's effect on connectedUsers:
\* if (socket.userId) connectedUsers.delete(socket.userId)
OnDisconnectTable(table, userId) ==
    IF userId # Undefined THEN [table EXCEPT ![userId] = NoSocket] ELSE table

\* socket.on('disconnect'); socket.io has taken the socket out of its rooms
\* and out of the namespace before the handler runs.
Disconnect(c) ==
    /\ status[c] = "open"
    /\ status' = [status EXCEPT ![c] = "closed"]
    /\ rooms' = [g \in GroupIds |-> rooms[g] \ {c}]
    /\ subscribed' = {p \in subscribed : p[1] # c}
    /\ connectedUsers' = OnDisconnectTable(connectedUsers, sockUserId[c])
    /\ emitted' = IF sockUserId[c] # Undefined
                  THEN [NoEmit EXCEPT !.event = "user-status",
                                      !.to = OpenConns \ {c},
                                      !.userId = sockUserId[c],
                                      !.state = "offline",
                                      !.total = OnlineCount(connectedUsers')]
                  ELSE NoEmit
    /\ resp' = 0
    /\ UNCHANGED <<sockUserId, storeVars>>

\* ------------------------------------------------------ HTTP handlers
\* Every HTTP action is a request that passed authMiddleware: u is req.user.id,
\* the id of a registered user.  A handler runs only while the model's bound
\* on failing I/O calls allows the outcomes drawn for it; the outcome of a
\* call the handler does not reach is drawn as TRUE.  The reads of users.json
\* that only decorate a response (authMiddleware, the `user` field of a
\* message) change no state and are not drawn.
Budget(io) == faults + Failed(io) <= MaxIoFaults

\* users[userIndex].communityGroups after `update`, written back; unchanged
\* when the read fails (userIndex === -1) or the write fails.
UpdateUserGroups(u, update, rok, wok) ==
    IF rok /\ wok THEN [userGroups EXCEPT ![u] = update] ELSE userGroups

\* A new group whose memberCount does not count its creator.
NewGroupUncounted(id, u) ==
    [id |-> id, members |-> <<u>>, moderators |-> <<u>>, creator |-> u,
     memberCount |-> 0, messageCount |-> 0]

NewGroup(id, u) ==
    [id |-> id, members |-> <<u>>, moderators |-> <<u>>, creator |-> u,
     memberCount |-> 1, messageCount |-> 0]

\* POST /api/community/groups
HttpCreateGroup(u, io) ==
    /\ nextGroupId <= NumGroups
    /\ Len(userGroups[u]) < MaxUserGroups
    /\ Budget(io)
    /\ LET loaded == ReadData(groups, io.rg)
           newGroup == NewGroup(nextGroupId, u)
       IN  /\ groups' = WriteData(groups, Push(loaded, newGroup), io.wg)
           /\ userGroups' = UpdateUserGroups(u, Push(userGroups[u], newGroup.id),
                                             io.ru, io.wu)
    /\ nextGroupId' = nextGroupId + 1
    /\ faults' = faults + Failed(io)
    /\ resp' = 201
    /\ emitted' = NoEmit
    /\ UNCHANGED <<status, presenceVars, roomVars, messages, otherFiles>>

\* POST /api/community/groups/:id/join
HttpJoinGroup(u, id, io) ==
    /\ Budget(io)
    /\ Len(userGroups[u]) < MaxUserGroups
    /\ LET loaded == ReadData(groups, io.rg)
           groupIndex == FindIndex(loaded, id)
       IN  IF groupIndex = 0
           THEN /\ io.wg /\ io.ru /\ io.wu
                /\ resp' = 404
                /\ UNCHANGED <<groups, userGroups>>
           ELSE IF Includes(loaded[groupIndex].members, u)
           THEN /\ io.wg /\ io.ru /\ io.wu
                /\ resp' = 400
                /\ UNCHANGED <<groups, userGroups>>
           ELSE LET members == Push(loaded[groupIndex].members, u)
                    updated == [loaded EXCEPT
                                   ![groupIndex].members = members,
                                   ![groupIndex].memberCount = Len(members)]
                IN  /\ groups' = WriteData(groups, updated, io.wg)
                    /\ userGroups' = UpdateUserGroups(u, Push(userGroups[u], id),
                                                      io.ru, io.wu)
                    /\ resp' = 200
    /\ faults' = faults + Failed(io)
    /\ emitted' = NoEmit
    /\ UNCHANGED <<status, presenceVars, roomVars, messages, nextGroupId, otherFiles>>

\* POST /api/community/groups/:id/leave
HttpLeaveGroup(u, id, io) ==
    /\ Budget(io)
    /\ LET loaded == ReadData(groups, io.rg)
           groupIndex == FindIndex(loaded, id)
       IN  IF groupIndex = 0
           THEN /\ io.wg /\ io.ru /\ io.wu
                /\ resp' = 404
                /\ UNCHANGED <<groups, userGroups>>
           ELSE LET members == FilterOut(loaded[groupIndex].members, u)
                    updated == [loaded EXCEPT
                                   ![groupIndex].members = members,
                                   ![groupIndex].memberCount = Len(members)]
                IN  /\ groups' = WriteData(groups, updated, io.wg)
                    /\ userGroups' = UpdateUserGroups(u, FilterOut(userGroups[u], id),
                                                      io.ru, io.wu)
                    /\ resp' = 200
    /\ faults' = faults + Failed(io)
    /\ emitted' = NoEmit
    /\ UNCHANGED <<status, presenceVars, roomVars, messages, nextGroupId, otherFiles>>

\* ------------------------------------------------------ group messages
NewMessage(groupId, userId, content) ==
    [groupId |-> groupId, userId |-> userId, content |-> content]

\* socket.broadcast.to(room): every socket of the room but the author's.
EmitNewMessageToOthers(m) ==
    [NoEmit EXCEPT !.event = "new-message",
                   !.to = {c \in Room(m.groupId) : sockUserId[c] # m.userId},
                   !.groupId = m.groupId, !.userId = m.userId,
                   !.content = m.content]

\* io.to(`group-${groupId}`).emit('new-message', {success: true, message})
EmitNewMessage(m) ==
    [NoEmit EXCEPT !.event = "new-message", !.to = Room(m.groupId),
                   !.groupId = m.groupId, !.userId = m.userId,
                   !.content = m.content]

\* POST /api/community/groups/:id/messages
HttpSendMessage(u, id, content, io) ==
    /\ Budget(io)
    /\ LET loadedGroups == ReadData(groups, io.rg)
           groupIndex == FindIndex(loadedGroups, id)
           none == io.rg /\ io.rm /\ io.wm /\ io.wg
       IN  IF content = NoContent
           THEN /\ none
                /\ resp' = 400
                /\ emitted' = NoEmit
                /\ UNCHANGED <<groups, messages>>
           ELSE IF groupIndex = 0
           THEN /\ io.rm /\ io.wm /\ io.wg
                /\ resp' = 404
                /\ emitted' = NoEmit
                /\ UNCHANGED <<groups, messages>>
           ELSE IF ~Includes(loadedGroups[groupIndex].members, u)
           THEN /\ io.rm /\ io.wm /\ io.wg
                /\ resp' = 403
                /\ emitted' = NoEmit
                /\ UNCHANGED <<groups, messages>>
           ELSE LET loaded == ReadData(messages, io.rm)
                    newMessage == NewMessage(id, u, content)
                    counted == [loadedGroups EXCEPT
                                   ![groupIndex].messageCount = @ + 1]
                IN  /\ Len(messages) < MaxMessages
                    /\ messages' = WriteData(messages, Push(loaded, newMessage), io.wm)
                    /\ groups' = WriteData(groups, counted, io.wg)
                    /\ emitted' = EmitNewMessage(newMessage)
                    /\ resp' = 201
    /\ faults' = faults + Failed(io)
    /\ UNCHANGED <<status, presenceVars, roomVars, userGroups, nextGroupId, otherFiles>>

\* socket.on('send-group-message'); wellFormed is FALSE for a payload that
\* cannot be destructured (null, undefined): the TypeError is caught and
\* reported to the sending socket.
SocketSendMessage(c, wellFormed, groupId, content, io) ==
    /\ status[c] = "open"
    /\ Budget(io)
    /\ IF ~wellFormed
       THEN /\ io.rm /\ io.wm
            /\ emitted' = [NoEmit EXCEPT !.event = "error", !.to = {c}]
            /\ UNCHANGED messages
       ELSE LET loaded == ReadData(messages, io.rm)
                newMessage == NewMessage(groupId, sockUserId[c], content)
            IN  /\ Len(messages) < MaxMessages
                /\ messages' = WriteData(messages, Push(loaded, newMessage), io.wm)
                /\ emitted' = EmitNewMessage(newMessage)
    /\ faults' = faults + Failed(io)
    /\ resp' = 0
    /\ UNCHANGED <<status, presenceVars, roomVars, groups, userGroups, nextGroupId,
                   otherFiles>>

GroupIo == IoOutcomes({"rg", "wg", "ru", "wu"})
SendIo == IoOutcomes({"rg", "rm", "wm", "wg"})
SocketSendIo == IoOutcomes({"rm", "wm"})

\* ------------------------------------------------------ direct messages
NewDirectMessage(id, sender, recipientId, content) ==
    [id |-> id, sender |-> sender, recipient |-> recipientId, content |-> content,
     isRead |-> FALSE]

\* A delivery that falls back to every connected socket when the recipient
\* has no entry in connectedUsers.
EmitNewDirectMessageOrAll(recipientId, senderId, content) ==
    [NoEmit EXCEPT !.event = "new-direct-message",
                   !.to = IF connectedUsers[recipientId] # NoSocket
                          THEN SocketRoom(connectedUsers[recipientId])
                          ELSE OpenConns,
                   !.userId = senderId, !.content = content]

\* const recipientSocket = connectedUsers.get(recipientId);
\* if (recipientSocket) io.to(recipientSocket).emit('new-direct-message', ...)
EmitNewDirectMessage(recipientId, senderId, content) ==
    IF connectedUsers[recipientId] # NoSocket
    THEN [NoEmit EXCEPT !.event = "new-direct-message",
                        !.to = SocketRoom(connectedUsers[recipientId]),
                        !.userId = senderId, !.content = content]
    ELSE NoEmit

\* POST /api/messages/send; recipientId Undefined is a body without recipientId.
HttpSendDirect(u, recipientId, content, io) ==
    /\ Budget(io)
    /\ IF recipientId = Undefined \/ content = NoContent
       THEN /\ io.rd /\ io.wd
            /\ resp' = 400
            /\ emitted' = NoEmit
            /\ UNCHANGED <<directMessages, nextDirectId>>
       ELSE LET loaded == ReadData(directMessages, io.rd)
                newMessage == NewDirectMessage(nextDirectId, u, recipientId, content)
            IN  /\ Len(directMessages) < MaxDirect
                /\ nextDirectId' = nextDirectId + 1
                /\ directMessages' =
                      WriteData(directMessages, Push(loaded, newMessage), io.wd)
                /\ emitted' = EmitNewDirectMessage(recipientId, u, content)
                /\ resp' = 201
    /\ faults' = faults + Failed(io)
    /\ UNCHANGED <<status, presenceVars, roomVars, groups, userGroups, messages,
                   nextGroupId, emergency, nextAlertId, clock, accountVars, running>>

\* A mark-as-read that flips the flag.
MarkReadToggle(dms, messageIndex) == [dms EXCEPT ![messageIndex].isRead = ~@]

\* directMessages[messageIndex].isRead = true
MarkRead(dms, messageIndex) == [dms EXCEPT ![messageIndex].isRead = TRUE]

\* POST /api/messages/:id/read
HttpMarkRead(u, id, io) ==
    /\ Budget(io)
    /\ LET loaded == ReadData(directMessages, io.rd)
           messageIndex == FindIndex(loaded, id)
       IN  IF messageIndex = 0
           THEN /\ io.wd
                /\ resp' = 404
                /\ UNCHANGED directMessages
           ELSE /\ directMessages' =
                      WriteData(directMessages, MarkRead(loaded, messageIndex), io.wd)
                /\ resp' = 200
    /\ emitted' = NoEmit
    /\ faults' = faults + Failed(io)
    /\ UNCHANGED <<status, presenceVars, roomVars, groups, userGroups, messages,
                   nextGroupId, nextDirectId, emergency, nextAlertId, clock,
                   accountVars, running>>

DirectIo == IoOutcomes({"rd", "wd"})

\* ------------------------------------------------------ emergency alerts
\* resolvedAt / cancelledAt of an alert that was never resolved / cancelled.
Null == 0

NewAlert(id, u, now) ==
    [id |-> id, userId |-> u, status |-> "active", createdAt |-> now,
     resolvedAt |-> Null, cancelledAt |-> Null]

\* A broadcast that skips the sockets that never announced a user.
EmitEmergencyBroadcastIdentified(userId) ==
    [NoEmit EXCEPT !.event = "emergency-broadcast",
                   !.to = {c \in OpenConns : sockUserId[c] # Undefined},
                   !.userId = userId]

\* io.emit('emergency-broadcast', {userId, location, message, timestamp})
EmitEmergencyBroadcast(userId) ==
    [NoEmit EXCEPT !.event = "emergency-broadcast", !.to = OpenConns,
                   !.userId = userId]

\* POST /api/emergency/alert
HttpCreateAlert(u, io) ==
    /\ nextAlertId <= NumAlerts
    /\ clock < MaxClock
    /\ Budget(io)
    /\ LET loaded == ReadData(emergency, io.re)
           newAlert == NewAlert(nextAlertId, u, clock + 1)
       IN  emergency' = WriteData(emergency, Push(loaded, newAlert), io.we)
    /\ nextAlertId' = nextAlertId + 1
    /\ clock' = clock + 1
    /\ emitted' = EmitEmergencyBroadcast(u)
    /\ resp' = 201
    /\ faults' = faults + Failed(io)
    /\ UNCHANGED <<status, presenceVars, roomVars, groups, userGroups, messages,
                   nextGroupId, directMessages, nextDirectId, accountVars, running>>

\* POST /api/emergency/alerts/:id/resolve
HttpResolveAlert(u, id, io) ==
    /\ Budget(io)
    /\ LET alerts == ReadData(emergency, io.re)
           alertIndex == FindIndex(alerts, id)
       IN  IF alertIndex = 0
           THEN /\ io.we
                /\ resp' = 404
                /\ UNCHANGED <<emergency, clock>>
           ELSE /\ clock < MaxClock
                /\ emergency' =
                      WriteData(emergency,
                                [alerts EXCEPT ![alertIndex].status = "resolved",
                                               ![alertIndex].resolvedAt = clock + 1],
                                io.we)
                /\ clock' = clock + 1
                /\ resp' = 200
    /\ emitted' = NoEmit
    /\ faults' = faults + Failed(io)
    /\ UNCHANGED <<status, presenceVars, roomVars, groups, userGroups, messages,
                   nextGroupId, directMessages, nextDirectId, nextAlertId,
                   accountVars, running>>

\* POST /api/emergency/alerts/:id/cancel
HttpCancelAlert(u, id, io) ==
    /\ Budget(io)
    /\ LET alerts == ReadData(emergency, io.re)
           alertIndex == FindIndex(alerts, id)
       IN  IF alertIndex = 0 \/ alerts[alertIndex].userId # u
           THEN /\ io.we
                /\ resp' = 404
                /\ UNCHANGED <<emergency, clock>>
           ELSE /\ clock < MaxClock
                /\ emergency' =
                      WriteData(emergency,
                                [alerts EXCEPT ![alertIndex].status = "cancelled",
                                               ![alertIndex].cancelledAt = clock + 1],
                                io.we)
                /\ clock' = clock + 1
                /\ resp' = 200
    /\ emitted' = NoEmit
    /\ faults' = faults + Failed(io)
    /\ UNCHANGED <<status, presenceVars, roomVars, groups, userGroups, messages,
                   nextGroupId, directMessages, nextDirectId, nextAlertId,
                   accountVars, running>>

\* socket.on('emergency-alert'), with a payload that is an object.
EmergencyAlert(c) ==
    /\ status[c] = "open"
    /\ emitted' = EmitEmergencyBroadcast(sockUserId[c])
    /\ resp' = 0
    /\ UNCHANGED <<status, presenceVars, roomVars, storeVars>>

AlertIo == IoOutcomes({"re", "we"})

\* ------------------------------------------------------ accounts
\* POST /api/users/register and POST /api/users/login are async handlers:
\* each reads users.json, awaits bcryptjs, and then works on the array it
\* read.  Other handlers run while a request awaits.  The two awaits of
\* register (genSalt, hash) touch no shared state between them and are one
\* step here.  users.json is held in two variables: the account fields of its
\* records in `users`, their communityGroups in userGroups; a handler that
\* writes the array it read writes both.
Emails == {"a@x", "b@x"}
Usernames == {"ann", "bob"}
Passwords == {"pw", "bad"}
Names == {"Ann B."}

\* bcryptjs.hash(password, salt)
Hash(password) == <<"bcrypt", password>>
\* bcryptjs.compare(password, hashed)
Compare(password, hashed) == hashed = Hash(password)

NewUser(id, username, email, password) ==
    [id |-> id, username |-> username, email |-> email,
     password |-> Hash(password), name |-> username, lastLogin |-> Null]

\* A uniqueness check that never finds a record.
TakenNever(snapshot, email, username) == FALSE

\* users.find(u => u.email === email || u.username === username)
Taken(snapshot, email, username) ==
    \E i \in 1..Len(snapshot) :
       snapshot[i].email = email \/ snapshot[i].username = username

\* users.find(u => u.email === email), as an index; 0 when there is none.
FindEmail(snapshot, email) ==
    IF \E i \in 1..Len(snapshot) : snapshot[i].email = email
    THEN CHOOSE i \in 1..Len(snapshot) :
            snapshot[i].email = email /\ \A j \in 1..(i - 1) : snapshot[j].email # email
    ELSE 0

\* The communityGroups of the records readData(FILES.users) returns.
ReadGroups(ok) == IF ok THEN userGroups ELSE NoGroups

\* Requests are numbered in the order they arrive.
Arrives(r) ==
    /\ inflight[r] = Idle
    /\ \A q \in Reqs : q < r => inflight[q] # Idle

accountFrame == <<status, presenceVars, roomVars, groups, messages,
                  nextGroupId, directMessages, nextDirectId, emergency,
                  nextAlertId, emitted, running>>

\* POST /api/users/register, up to the first await.
RegisterReceive(r, username, email, password, io) ==
    /\ Arrives(r)
    /\ Budget(io)
    /\ LET snapshot == ReadData(users, io.ru)
       IN  IF Taken(snapshot, email, username)
           THEN /\ inflight' = [inflight EXCEPT ![r] =
                       Request("done", "register", snapshot, 0, username, email,
                               password, 400, 0)]
                /\ resp' = 400
           ELSE /\ inflight' = [inflight EXCEPT ![r] =
                       [Request("await", "register", snapshot, 0, username, email,
                                password, 0, 0)
                           EXCEPT !.communityGroups = ReadGroups(io.ru)]]
                /\ resp' = 0
    /\ faults' = faults + Failed(io)
    /\ UNCHANGED <<accountFrame, users, userGroups, nextUserId, clock>>

\* POST /api/users/register, after the awaits.
RegisterComplete(r, io) ==
    /\ inflight[r].pc = "await" /\ inflight[r].kind = "register"
    /\ Budget(io)
    /\ LET q == inflight[r]
           newUser == NewUser(nextUserId, q.username, q.email, q.password)
       IN  /\ users' = WriteData(users, Push(q.users, newUser), io.wu)
           /\ userGroups' = WriteData(userGroups, q.communityGroups, io.wu)
           /\ inflight' = [inflight EXCEPT ![r] =
                  Request("done", "register", q.users, 0, q.username, q.email,
                          q.password, 201, newUser.id)]
    /\ nextUserId' = nextUserId + 1
    /\ resp' = 201
    /\ faults' = faults + Failed(io)
    /\ UNCHANGED <<accountFrame, clock>>

\* POST /api/users/login, up to the await.
LoginReceive(r, email, password, io) ==
    /\ Arrives(r)
    /\ Budget(io)
    /\ LET snapshot == ReadData(users, io.ru)
           index == FindEmail(snapshot, email)
       IN  IF index = 0
           THEN /\ inflight' = [inflight EXCEPT ![r] =
                       Request("done", "login", snapshot, 0, "", email, password,
                               401, 0)]
                /\ resp' = 401
           ELSE /\ inflight' = [inflight EXCEPT ![r] =
                       [Request("await", "login", snapshot, index, "", email,
                                password, 0, snapshot[index].id)
                           EXCEPT !.communityGroups = ReadGroups(io.ru)]]
                /\ resp' = 0
    /\ faults' = faults + Failed(io)
    /\ UNCHANGED <<accountFrame, users, userGroups, nextUserId, clock>>

\* POST /api/users/login, after the await.
LoginComplete(r, io) ==
    /\ inflight[r].pc = "await" /\ inflight[r].kind = "login"
    /\ Budget(io)
    /\ LET q == inflight[r]
       IN  IF ~Compare(q.password, q.users[q.index].password)
           THEN /\ io.wu
                /\ inflight' = [inflight EXCEPT ![r].pc = "done", ![r].status = 401]
                /\ resp' = 401
                /\ UNCHANGED <<users, userGroups, clock>>
           ELSE /\ clock < MaxClock
                /\ userGroups' = WriteData(userGroups, q.communityGroups, io.wu)
                /\ users' = WriteData(users,
                                      [q.users EXCEPT ![q.index].lastLogin = clock + 1],
                                      io.wu)
                /\ clock' = clock + 1
                /\ inflight' = [inflight EXCEPT ![r].pc = "done", ![r].status = 200]
                /\ resp' = 200
    /\ faults' = faults + Failed(io)
    /\ UNCHANGED <<accountFrame, nextUserId>>

\* PUT /api/users/profile with a profile.name, by the account `uid` that
\* authMiddleware found in users.json.
HttpUpdateProfile(uid, name, io) ==
    /\ FindIndex(users, uid) # 0
    /\ Budget(io)
    /\ LET loaded == ReadData(users, io.ru)
           userIndex == FindIndex(loaded, uid)
       IN  IF userIndex = 0
           THEN /\ io.wu
                /\ resp' = 404
                /\ UNCHANGED users
           ELSE /\ users' = WriteData(users, [loaded EXCEPT ![userIndex].name = name],
                                      io.wu)
                /\ resp' = 200
    /\ faults' = faults + Failed(io)
    /\ UNCHANGED <<accountFrame, userGroups, inflight, nextUserId, clock>>

UserIds == 1..NumReqs
ReadUsersIo == IoOutcomes({"ru"})
WriteUsersIo == IoOutcomes({"wu"})
ProfileIo == IoOutcomes({"ru", "wu"})

\* ------------------------------------------------------ specifications
\* One more handled event, while the run's bound allows it.
Counted == events < MaxEvents /\ events' = events + 1

\* The whole server: every modelled handler, at most MaxEvents of them in a
\* run.
Next ==
    \/ \E c \in Conns : Connect(c) /\ Counted
    \/ \E c \in Conns, u \in AnnounceIds : UserJoin(c, u) /\ Counted
    \/ \E c \in Conns, g \in GroupIds : JoinGroup(c, g) /\ Counted
    \/ \E c \in Conns, g \in GroupIds : LeaveGroup(c, g) /\ Counted
    \/ \E c \in Conns, u \in AnnounceIds, t \in Contents :
          DirectMessage(c, u, t) /\ Counted
    \/ \E c \in Conns : Disconnect(c) /\ Counted
    \/ \E c \in Conns, wf \in BOOLEAN, g \in GroupIds, t \in Contents,
          io \in SocketSendIo :
          SocketSendMessage(c, wf, g, t, io) /\ Counted
    \/ \E u \in Users, io \in GroupIo : HttpCreateGroup(u, io) /\ Counted
    \/ \E u \in Users, g \in GroupIds, io \in GroupIo :
          HttpJoinGroup(u, g, io) /\ Counted
    \/ \E u \in Users, g \in GroupIds, io \in GroupIo :
          HttpLeaveGroup(u, g, io) /\ Counted
    \/ \E u \in Users, g \in GroupIds, t \in Contents \cup {NoContent},
          io \in SendIo :
          HttpSendMessage(u, g, t, io) /\ Counted

Spec == Init /\ [][Next]_vars

\* The presence table alone: the handlers that read or write connectedUsers
\* and socket.userId, in runs of any length.
PresenceNext ==
    \/ \E c \in Conns : Connect(c) /\ UNCHANGED events
    \/ \E c \in Conns, u \in AnnounceIds : UserJoin(c, u) /\ UNCHANGED events
    \/ \E c \in Conns, u \in AnnounceIds, t \in Contents :
          DirectMessage(c, u, t) /\ UNCHANGED events
    \/ \E c \in Conns : Disconnect(c) /\ UNCHANGED events

SpecPresence == Init /\ [][PresenceNext]_vars

\* The channel router alone: the handlers that change or read the group
\* rooms, in runs of any length.
RouterNext ==
    \/ \E c \in Conns : Connect(c) /\ UNCHANGED events
    \/ \E c \in Conns, g \in GroupIds : JoinGroup(c, g) /\ UNCHANGED events
    \/ \E c \in Conns, g \in GroupIds : LeaveGroup(c, g) /\ UNCHANGED events
    \/ \E c \in Conns : Disconnect(c) /\ UNCHANGED events
    \/ \E c \in Conns, wf \in BOOLEAN, g \in GroupIds,
          t \in Contents \cup {NoContent}, io \in SocketSendIo :
          SocketSendMessage(c, wf, g, t, io) /\ UNCHANGED events
    \/ \E c \in Conns, g \in GroupIds : UserTyping(c, g) /\ UNCHANGED events
    \/ \E c \in Conns, g \in GroupIds : UserStopTyping(c, g) /\ UNCHANGED events

SpecRouter == Init /\ [][RouterNext]_vars

\* Direct messages: the presence handlers with both direct-message entry
\* points, in runs of any length.
DirectNext ==
    \/ \E c \in Conns : Connect(c) /\ UNCHANGED events
    \/ \E c \in Conns, u \in AnnounceIds : UserJoin(c, u) /\ UNCHANGED events
    \/ \E c \in Conns, r \in AnnounceIds, t \in Contents \cup {NoContent} :
          DirectMessage(c, r, t) /\ UNCHANGED events
    \/ \E c \in Conns : Disconnect(c) /\ UNCHANGED events
    \/ \E u \in Users, r \in AnnounceIds, t \in Contents \cup {NoContent},
          io \in DirectIo :
          HttpSendDirect(u, r, t, io) /\ UNCHANGED events

SpecDirect == Init /\ [][DirectNext]_vars

\* Emergency alerts: the alert endpoints and the 'emergency-alert' event over
\* connecting and disconnecting sockets.
EmergencyNext ==
    \/ \E c \in Conns : Connect(c) /\ UNCHANGED events
    \/ \E c \in Conns : Disconnect(c) /\ UNCHANGED events
    \/ \E c \in Conns : EmergencyAlert(c) /\ UNCHANGED events
    \/ \E u \in Users, io \in AlertIo : HttpCreateAlert(u, io) /\ UNCHANGED events
    \/ \E u \in Users, a \in AlertIds, io \in AlertIo :
          HttpResolveAlert(u, a, io) /\ UNCHANGED events
    \/ \E u \in Users, a \in AlertIds, io \in AlertIo :
          HttpCancelAlert(u, a, io) /\ UNCHANGED events

SpecEmergency == Init /\ [][EmergencyNext]_vars

\* The record store under failing I/O: the three create operations that
\* publish an event, with the group creation they need, at most MaxEvents
\* requests in a run.
StoreNext ==
    \/ \E c \in Conns : Connect(c) /\ Counted
    \/ \E c \in Conns, u \in Users : UserJoin(c, u) /\ Counted
    \/ \E u \in Users, io \in GroupIo : HttpCreateGroup(u, io) /\ Counted
    \/ \E u \in Users, g \in GroupIds, t \in Contents, io \in SendIo :
          HttpSendMessage(u, g, t, io) /\ Counted
    \/ \E u \in Users, io \in AlertIo : HttpCreateAlert(u, io) /\ Counted
    \/ \E u \in Users, r \in Users, t \in Contents, io \in DirectIo :
          HttpSendDirect(u, r, t, io) /\ Counted

SpecStore == Init /\ [][StoreNext]_vars

\* The direct-message collection alone: its two writers, in runs of any
\* length.
InboxNext ==
    \/ \E u \in Users, r \in AnnounceIds, t \in Contents \cup {NoContent},
          io \in DirectIo :
          HttpSendDirect(u, r, t, io) /\ UNCHANGED events
    \/ \E u \in Users, id \in DirectIds, io \in DirectIo :
          HttpMarkRead(u, id, io) /\ UNCHANGED events

SpecInbox == Init /\ [][InboxNext]_vars

\* The accounts of users.json: register and login requests, whose halves
\* interleave, and profile updates.
AccountsNext ==
    \/ \E r \in Reqs, n \in Usernames, e \in Emails, io \in ReadUsersIo :
          RegisterReceive(r, n, e, "pw", io) /\ UNCHANGED events
    \/ \E r \in Reqs, io \in WriteUsersIo :
          RegisterComplete(r, io) /\ UNCHANGED events
    \/ \E r \in Reqs, e \in Emails, p \in Passwords, io \in ReadUsersIo :
          LoginReceive(r, e, p, io) /\ UNCHANGED events
    \/ \E r \in Reqs, io \in WriteUsersIo :
          LoginComplete(r, io) /\ UNCHANGED events
    \/ \E uid \in UserIds, n \in Names, io \in ProfileIo :
          HttpUpdateProfile(uid, n, io) /\ UNCHANGED events

SpecAccounts == Init /\ [][AccountsNext]_vars

\* authMiddleware: the token's user id is found in users.json.
Authenticated(u) == FindIndex(users, u) # 0

\* readData/writeData calls that all succeed.
SucceedingIo(calls) == {[k \in calls |-> TRUE]}

\* Membership in both collections: register and login requests, whose halves
\* interleave with the group requests of the registered accounts; every read
\* and write succeeds, and a run has at most MaxEvents steps.
MembershipNext ==
    \/ \E r \in Reqs, n \in Usernames, e \in Emails, io \in SucceedingIo({"ru"}) :
          RegisterReceive(r, n, e, "pw", io) /\ Counted
    \/ \E r \in Reqs, io \in SucceedingIo({"wu"}) :
          RegisterComplete(r, io) /\ Counted
    \/ \E r \in Reqs, e \in Emails, io \in SucceedingIo({"ru"}) :
          LoginReceive(r, e, "pw", io) /\ Counted
    \/ \E r \in Reqs, io \in SucceedingIo({"wu"}) :
          LoginComplete(r, io) /\ Counted
    \/ \E u \in Users, io \in SucceedingIo({"rg", "wg", "ru", "wu"}) :
          Authenticated(u) /\ HttpCreateGroup(u, io) /\ Counted
    \/ \E u \in Users, g \in GroupIds, io \in SucceedingIo({"rg", "wg", "ru", "wu"}) :
          Authenticated(u) /\ HttpJoinGroup(u, g, io) /\ Counted
    \/ \E u \in Users, g \in GroupIds, io \in SucceedingIo({"rg", "wg", "ru", "wu"}) :
          Authenticated(u) /\ HttpLeaveGroup(u, g, io) /\ Counted

SpecMembership == Init /\ [][MembershipNext]_vars

\* The event dispatcher: the socket handlers that touch no file, with
\* well-formed and malformed payloads; nothing is handled once the process
\* has exited.
DispatcherNext ==
    \/ \E c \in Conns : running /\ Connect(c) /\ UNCHANGED events
    \/ \E c \in Conns, u \in Users : running /\ UserJoin(c, u) /\ UNCHANGED events
    \/ \E c \in Conns, g \in GroupIds :
          running /\ JoinGroup(c, g) /\ UNCHANGED events
    \/ \E c \in Conns, g \in GroupIds :
          running /\ UserTyping(c, g) /\ UNCHANGED events
    \/ \E c \in Conns, g \in GroupIds :
          running /\ UserStopTyping(c, g) /\ UNCHANGED events
    \/ \E c \in Conns : running /\ EmergencyAlert(c) /\ UNCHANGED events
    \/ \E c \in Conns, r \in AnnounceIds, t \in Contents \cup {NoContent} :
          running /\ DirectMessage(c, r, t) /\ UNCHANGED events
    \/ \E c \in Conns : running /\ Disconnect(c) /\ UNCHANGED events
    \/ \E c \in Conns, e \in UnguardedEvents :
          running /\ MalformedPayload(c, e) /\ UNCHANGED events

SpecDispatcher == Init /\ [][DispatcherNext]_vars

\* ================================================================ claims
\* groups.find(g => g.id === id) on the persisted collection `gs`.
ExistsIn(gs, id) == FindIndex(gs, id) # 0
MemberIn(gs, u, id) ==
    ExistsIn(gs, id) /\ Includes(gs[FindIndex(gs, id)].members, u)
CountIn(gs, id) == gs[FindIndex(gs, id)].messageCount

\* A group-message send that completed: the HTTP request answered 201, or the
\* socket event ran without throwing.
HttpSent(u, g, t) == \E io \in SendIo : HttpSendMessage(u, g, t, io) /\ resp' = 201
SocketSent(c, g, t) == \E io \in SocketSendIo : SocketSendMessage(c, TRUE, g, t, io)
SendCompleted ==
    \/ \E u \in Users, g \in GroupIds, t \in Contents : HttpSent(u, g, t)
    \/ \E c \in Conns, g \in GroupIds, t \in Contents : SocketSent(c, g, t)

\* A step in which no readData/writeData call failed.
NoFault == faults' = faults

\* C1: no lost updates on the messages collection.  In every step in which
\* all reads and writes succeed, the collection grows by exactly one record
\* if the step is a completed send (HTTP or socket) and keeps its length
\* otherwise; so after any interleaving of sends its length is the initial
\* length plus the number of completed sends.
C1_NoLostUpdates ==
    [][NoFault =>
         Len(messages') = Len(messages) + (IF SendCompleted THEN 1 ELSE 0)]_vars

\* C1 witness: an HTTP send has just been appended behind a record that a
\* socket send persisted earlier, with no failed read or write in the run.
C1_Witness ==
    /\ faults = 0
    /\ Len(messages) = 2
    /\ resp = 201
    /\ emitted.event = "new-message"
    /\ messages[1].userId = Undefined

\* C2: a send by an author who is not in the target group's member set is
\* rejected with an authorization error on both entry points (HTTP: status
\* 403; socket: an 'error' event to the sender), the messages and groups
\* collections stay as they were and no 'new-message' event is published.
C2_NonMemberSendRejected ==
    [][NoFault =>
         \A g \in GroupIds, t \in Contents :
            /\ \A u \in Users :
                 (/\ ExistsIn(groups, g)
                  /\ ~MemberIn(groups, u, g)
                  /\ \E io \in SendIo : HttpSendMessage(u, g, t, io))
                 => (/\ resp' = 403
                     /\ emitted'.event # "new-message"
                     /\ messages' = messages
                     /\ groups' = groups)
            /\ \A c \in Conns :
                 (/\ ExistsIn(groups, g)
                  /\ sockUserId[c] \in Users
                  /\ ~MemberIn(groups, sockUserId[c], g)
                  /\ SocketSent(c, g, t))
                 => (/\ emitted'.event = "error"
                     /\ messages' = messages
                     /\ groups' = groups)]_vars

\* C3: every completed send to an existing group G by one of its members,
\* over HTTP or over the socket, appends exactly one message record, raises
\* G's persisted messageCount by exactly 1 and leaves every other group's
\* messageCount as it was (stated for steps in which no read or write fails).
C3_SendCountsOnce ==
    [][\A g \in GroupIds, t \in Contents :
         (/\ NoFault
          /\ ExistsIn(groups, g)
          /\ \/ \E u \in Users : HttpSent(u, g, t)
             \/ \E c \in Conns :
                   MemberIn(groups, sockUserId[c], g) /\ SocketSent(c, g, t))
         => (/\ Len(messages') = Len(messages) + 1
             /\ \A h \in GroupIds :
                  ExistsIn(groups, h) =>
                     /\ ExistsIn(groups', h)
                     /\ CountIn(groups', h) =
                           CountIn(groups, h) + (IF h = g THEN 1 ELSE 0))]_vars

\* C4: join-group-then-send-message.  If socket c is open, has announced
\* user U, is in the room of group G, and U is a member of G, then a send by
\* U to G (the HTTP request of U, or the socket event of any socket bound to
\* U) publishes a 'new-message' event for G that c receives and that carries
\* the sent content.
C4_JoinedMemberReceivesOwn ==
    [][\A c \in Conns, g \in GroupIds, t \in Contents :
         (/\ status[c] = "open"
          /\ sockUserId[c] \in Users
          /\ c \in rooms[g]
          /\ MemberIn(groups, sockUserId[c], g)
          /\ \/ HttpSent(sockUserId[c], g, t)
             \/ \E d \in Conns : sockUserId[d] = sockUserId[c] /\ SocketSent(d, g, t))
         => (/\ emitted'.event = "new-message"
             /\ emitted'.groupId = g
             /\ emitted'.content = t
             /\ c \in emitted'.to)]_vars

\* C4 witness: a message has just been published to a room that holds an
\* open socket bound to the message's author, who is a member of the group.
C4_Witness ==
    /\ emitted.event = "new-message"
    /\ emitted.userId \in Users
    /\ MemberIn(groups, emitted.userId, emitted.groupId)
    /\ \E c \in emitted.to :
          /\ status[c] = "open"
          /\ sockUserId[c] = emitted.userId
          /\ c \in rooms[emitted.groupId]

\* C5: publish(topic, e) delivers to exactly the sockets joined to the topic
\* at the call.  The room of every group holds exactly the sockets that
\* joined it and have not left it or disconnected since, whatever joins and
\* leaves happened on other rooms (a socket may be in several rooms, and a
\* room needs no creation before its first join), and every 'new-message' is
\* delivered to exactly those sockets.
C5_PublishExactlyTopic ==
    /\ \A g \in GroupIds : rooms[g] = {c \in Conns : <<c, g>> \in subscribed}
    /\ emitted.event = "new-message" =>
          emitted.to = {c \in OpenConns : <<c, emitted.groupId>> \in subscribed}

\* C5 witness: a message was delivered to a non-empty room while another
\* socket was open outside it, and a receiving socket is in a second room too.
C5_Witness ==
    /\ emitted.event = "new-message"
    /\ \E c \in OpenConns : c \notin emitted.to
    /\ \E c \in emitted.to, h \in GroupIds : h # emitted.groupId /\ c \in rooms[h]

\* C6: a socket receives a 'new-message' event for group G only if the user
\* bound to the socket is a member of G (stated for runs without a failed
\* read or write, for messages of an existing group written by one of its
\* members, received by sockets that announced a user).
C6_OnlyMembersReceive ==
    (/\ faults = 0
     /\ emitted.event = "new-message"
     /\ MemberIn(groups, emitted.userId, emitted.groupId))
    => \A c \in emitted.to :
          sockUserId[c] \in Users =>
             MemberIn(groups, sockUserId[c], emitted.groupId)

\* C7: presence replacement.  An announce of u from socket c makes
\* resolve(u) = c whatever entry u had; the entry of u changes only in an
\* announce of u or in a disconnect; and a direct message addressed to u
\* while u's socket is open is delivered to that socket and to no other.
C7_PresenceReplacement ==
    [][/\ \A c \in Conns, u \in AnnounceIds :
             UserJoin(c, u) => connectedUsers'[u] = c
       /\ \A u \in AnnounceIds :
             connectedUsers'[u] # connectedUsers[u] =>
                \/ \E c \in Conns : UserJoin(c, u)
                \/ \E c \in Conns : Disconnect(c)
       /\ \A c \in Conns, u \in AnnounceIds, t \in Contents :
             (/\ DirectMessage(c, u, t)
              /\ connectedUsers[u] # NoSocket
              /\ status[connectedUsers[u]] = "open")
             => (/\ emitted'.event = "new-direct-message"
                 /\ emitted'.to = {connectedUsers[u]})]_vars

\* C7 witness: two open sockets have announced the same user, the table holds
\* the second and only this user maps to it, and a direct message has just
\* been delivered to the second socket alone.
C7_Witness ==
    \E u \in Users, c1 \in Conns, c2 \in Conns :
       /\ c1 # c2
       /\ status[c1] = "open" /\ status[c2] = "open"
       /\ sockUserId[c1] = u /\ sockUserId[c2] = u
       /\ connectedUsers[u] = c2
       /\ \A v \in AnnounceIds : v # u => connectedUsers[v] # c2
       /\ emitted.event = "new-direct-message"
       /\ emitted.to = {c2}

\* C8: the entry u -> c stays until c itself terminates or a later announce
\* of u replaces it: a step that leaves c open and is not an announce of u
\* keeps resolve(u) = c.
C8_EntryLivesWithItsConnection ==
    [][\A u \in Users, c \in Conns :
         (/\ connectedUsers[u] = c
          /\ status'[c] = "open"
          /\ ~ \E d \in Conns : UserJoin(d, u))
         => connectedUsers'[u] = c]_vars

\* C9: no orphaned presence entries: once socket c has disconnected, no
\* user's entry of the presence table maps to c, whatever users c announced
\* before (stated for sockets whose last announce named a user).
C9_NoOrphanedPresence ==
    \A c \in Conns :
       (status[c] = "closed" /\ sockUserId[c] \in Users)
       => \A u \in Users : connectedUsers[u] # c

\* C10: disconnect idempotence.  Running the disconnect handler's table
\* update again, right after the disconnect of socket c, leaves the presence
\* table as the first run left it.
C10_DisconnectIdempotent ==
    [][\A c \in Conns :
         Disconnect(c) =>
            OnDisconnectTable(connectedUsers', sockUserId'[c]) = connectedUsers']_vars

\* C10 witness: a socket that had announced a user has disconnected while
\* another identity still has an entry in the table.
C10_Witness ==
    \E c \in Conns :
       /\ status[c] = "closed"
       /\ sockUserId[c] \in Users
       /\ connectedUsers[sockUserId[c]] = NoSocket
       /\ \E v \in Users : connectedUsers[v] # NoSocket

\* C11: a direct message to a recipient without a presence entry is a silent
\* no-op of the delivery.  On both entry points no connection receives
\* 'new-direct-message' and no error is raised to the sender; on the HTTP
\* path, when no read or write fails, the record is appended to the
\* directMessages collection and the response is 201.
C11_AbsentRecipientSilent ==
    [][\A r \in Users, t \in Contents :
         connectedUsers[r] = NoSocket =>
            /\ \A c \in Conns :
                  DirectMessage(c, r, t) =>
                     emitted'.to = {} /\ emitted'.event = "none"
            /\ \A u \in Users :
                  (\E io \in DirectIo : HttpSendDirect(u, r, t, io)) =>
                     /\ emitted'.to = {} /\ emitted'.event = "none"
                     /\ resp' = 201
                     /\ NoFault =>
                           directMessages' =
                              Append(directMessages,
                                     NewDirectMessage(nextDirectId, u, r, t))]_vars

\* C11 witness: an HTTP direct message to a user without a presence entry has
\* just been stored and answered 201 while another socket is connected and
\* announced, and nothing was delivered.
C11_Witness ==
    /\ resp = 201
    /\ faults = 0
    /\ emitted = NoEmit
    /\ directMessages # <<>>
    /\ connectedUsers[directMessages[Len(directMessages)].recipient] = NoSocket
    /\ \E c \in OpenConns : sockUserId[c] \in Users

\* The alert with id `id` in the persisted collection `as`.
AlertIn(as, id) == as[FindIndex(as, id)]

\* C12: alert status is a one-way state machine.  An alert whose persisted
\* status is 'resolved' or 'cancelled' keeps its status, its resolvedAt and
\* its cancelledAt in every later step (stated for steps in which no read or
\* write fails).
C12_TerminalStatusFinal ==
    [][\A a \in AlertIds :
         (/\ NoFault
          /\ FindIndex(emergency, a) # 0
          /\ AlertIn(emergency, a).status \in {"resolved", "cancelled"})
         => (/\ FindIndex(emergency', a) # 0
             /\ AlertIn(emergency', a).status = AlertIn(emergency, a).status
             /\ AlertIn(emergency', a).resolvedAt = AlertIn(emergency, a).resolvedAt
             /\ AlertIn(emergency', a).cancelledAt =
                   AlertIn(emergency, a).cancelledAt)]_vars

\* C13: in every persisted state of the groups collection, each group's
\* memberCount equals the length of its members list.
C13_MemberCountIsSize ==
    \A i \in 1..Len(groups) : groups[i].memberCount = Len(groups[i].members)

\* C13 witness: the collection holds a group with two members, joined over
\* HTTP, and a group that its only member has left.
C13_Witness ==
    /\ \E i \in 1..Len(groups) : Len(groups[i].members) = 2
    /\ \E i \in 1..Len(groups) : Len(groups[i].members) = 0

\* The number of positions of `arr` that hold x.
Occurrences(arr, x) == Cardinality({i \in 1..Len(arr) : arr[i] = x})

\* C14: membership is idempotent.  No user id occurs more than once in any
\* group's members list, and a join request by a user who is already a member
\* of the group is answered 400 and leaves the groups collection as it was.
C14_MembershipIdempotent ==
    /\ [](\A i \in 1..Len(groups), u \in Users :
             Occurrences(groups[i].members, u) <= 1)
    /\ [][\A u \in Users, g \in GroupIds :
            (/\ MemberIn(groups, u, g)
             /\ NoFault
             /\ \E io \in GroupIo : HttpJoinGroup(u, g, io))
            => (resp' = 400 /\ groups' = groups)]_vars

\* C14 witness: a join has just been refused with 400 for a user who is
\* already in the members list of a group that has two members.
C14_Witness ==
    /\ resp = 400
    /\ emitted = NoEmit
    /\ \E i \in 1..Len(groups) : Len(groups[i].members) = 2

\* C15: events of an unidentified connection take no effect.  While socket c
\* has announced no user, its join-group and leave-group events change no
\* room, its send-group-message events persist no record and deliver nothing,
\* and its direct-message events deliver nothing.
C15_UnidentifiedHasNoEffect ==
    [][\A c \in Conns :
         sockUserId[c] = Undefined =>
            /\ \A g \in GroupIds :
                  (JoinGroup(c, g) \/ LeaveGroup(c, g)) => rooms' = rooms
            /\ \A g \in GroupIds, t \in Contents :
                  SocketSent(c, g, t) => (messages' = messages /\ emitted'.to = {})
            /\ \A r \in Users, t \in Contents :
                  DirectMessage(c, r, t) => emitted'.to = {}]_vars

\* C16: a send with absent content (or, for a direct message, absent
\* recipient) is rejected on every entry point: the messages and
\* directMessages collections stay as they were and no 'new-message' or
\* 'new-direct-message' event is delivered; the HTTP entry points answer 400.
C16_AbsentContentRejected ==
    [][/\ \A u \in Users, g \in GroupIds :
             (\E io \in SendIo : HttpSendMessage(u, g, NoContent, io))
             => (resp' = 400 /\ messages' = messages /\ emitted'.event = "none")
       /\ \A c \in Conns, g \in GroupIds :
             SocketSent(c, g, NoContent)
             => (messages' = messages /\ emitted'.event # "new-message")
       /\ \A u \in Users, r \in AnnounceIds, t \in Contents \cup {NoContent} :
             (/\ r = Undefined \/ t = NoContent
              /\ \E io \in DirectIo : HttpSendDirect(u, r, t, io))
             => (/\ resp' = 400
                 /\ directMessages' = directMessages
                 /\ emitted'.event = "none")
       /\ \A c \in Conns, r \in AnnounceIds :
             DirectMessage(c, r, NoContent)
             => emitted'.event # "new-direct-message"]_vars

\* C17: an operation that names a group id absent from the groups collection
\* (a group message over HTTP or over the socket, a join, a leave) is
\* rejected, leaves the groups, users and messages collections as they were
\* and publishes nothing; the HTTP requests answer 404 (stated for steps in
\* which no read or write fails).
C17_UnknownIdRejected ==
    [][\A g \in GroupIds :
         (NoFault /\ ~ExistsIn(groups, g)) =>
            /\ \A u \in Users, t \in Contents :
                  (\E io \in SendIo : HttpSendMessage(u, g, t, io))
                  => (/\ resp' = 404
                      /\ messages' = messages /\ groups' = groups
                      /\ emitted'.event = "none")
            /\ \A c \in Conns, t \in Contents :
                  SocketSent(c, g, t)
                  => (messages' = messages /\ emitted'.event # "new-message")
            /\ \A u \in Users :
                  (\E io \in GroupIo :
                      HttpJoinGroup(u, g, io) \/ HttpLeaveGroup(u, g, io))
                  => (/\ resp' = 404
                      /\ groups' = groups /\ userGroups' = userGroups)]_vars

\* C18: the real-time path persists the record the HTTP path persists.  A
\* 'direct-message' event with a recipient and content, sent by a socket bound
\* to user s, appends the record (sender s, recipient, content, isRead false)
\* to the directMessages collection, as POST /api/messages/send does for
\* req.user s.
C18_SocketDirectMessagePersisted ==
    [][\A c \in Conns, r \in Users, t \in Contents :
         (/\ sockUserId[c] \in Users
          /\ Len(directMessages) < MaxDirect
          /\ DirectMessage(c, r, t))
         => directMessages' =
               Append(directMessages,
                      NewDirectMessage(nextDirectId, sockUserId[c], r, t))]_vars

\* C19: the two emergency-broadcast paths.  The HTTP create-alert request
\* (when no read or write fails) appends exactly one alert record, with status
\* 'active' and the requester as its user, behind the records already stored,
\* and publishes 'emergency-broadcast' to every connected socket; the
\* 'emergency-alert' socket event publishes 'emergency-broadcast' to every
\* connected socket and leaves the emergency collection as it was.
C19_EmergencyTwoPaths ==
    [][/\ \A u \in Users :
             (NoFault /\ \E io \in AlertIo : HttpCreateAlert(u, io))
             => (/\ Len(emergency') = Len(emergency) + 1
                 /\ SubSeq(emergency', 1, Len(emergency)) = emergency
                 /\ emergency'[Len(emergency')].status = "active"
                 /\ emergency'[Len(emergency')].userId = u
                 /\ emitted'.event = "emergency-broadcast"
                 /\ emitted'.to = {c \in Conns : status'[c] = "open"})
       /\ \A c \in Conns :
             EmergencyAlert(c)
             => (/\ emergency' = emergency
                 /\ emitted'.event = "emergency-broadcast"
                 /\ emitted'.to = {d \in Conns : status'[d] = "open"})]_vars

\* C19 witness: a socket event has just broadcast to two connected sockets
\* while the collection holds the two alerts created over HTTP, unchanged.
C19_Witness ==
    /\ resp = 0
    /\ faults = 0
    /\ emitted.event = "emergency-broadcast"
    /\ Cardinality(emitted.to) = 2
    /\ Len(emergency) = 2
    /\ \A i \in 1..Len(emergency) : emergency[i].status = "active"

\* C20: a failure while handling a 'send-group-message' event, a payload that
\* cannot be read or a failed read or write of the messages collection, is
\* reported as an 'error' event to the sending socket and to no other, and no
\* 'new-message' event is delivered for it.
C20_SendFailureReportedToSender ==
    [][\A c \in Conns, wf \in BOOLEAN, g \in GroupIds, t \in Contents :
         (/\ ~wf \/ ~NoFault
          /\ \E io \in SocketSendIo : SocketSendMessage(c, wf, g, t, io))
         => (emitted'.event = "error" /\ emitted'.to = {c})]_vars

\* C21: a failed durable write is only logged.  When the write of the
\* collection fails during an HTTP group-message send, an alert creation or a
\* direct-message send (all reads succeeding), the request still answers 201,
\* the event is still published from the in-memory record ('new-message',
\* 'emergency-broadcast', and 'new-direct-message' when the recipient has a
\* presence entry), and the durable collection stays as it was.
C21_WriteFailureStillSucceeds ==
    [][/\ \A u \in Users, g \in GroupIds, t \in Contents :
             (\E io \in SendIo :
                 ~io.wm /\ io.rg /\ io.rm /\ HttpSendMessage(u, g, t, io))
             => (/\ messages' = messages
                 /\ resp' = 201
                 /\ emitted'.event = "new-message"
                 /\ emitted'.content = t)
       /\ \A u \in Users :
             (\E io \in AlertIo : ~io.we /\ io.re /\ HttpCreateAlert(u, io))
             => (/\ emergency' = emergency
                 /\ resp' = 201
                 /\ emitted'.event = "emergency-broadcast")
       /\ \A u \in Users, r \in Users, t \in Contents :
             (\E io \in DirectIo : ~io.wd /\ io.rd /\ HttpSendDirect(u, r, t, io))
             => (/\ directMessages' = directMessages
                 /\ resp' = 201
                 /\ connectedUsers[r] # NoSocket =>
                       emitted'.event = "new-direct-message")]_vars

\* C21 witness: a direct message was answered 201 and delivered to its
\* recipient's socket although its write failed: an id has been handed out
\* and the collection is still empty.
C21_Witness ==
    /\ faults = 1
    /\ resp = 201
    /\ emitted.event = "new-direct-message"
    /\ emitted.to # {}
    /\ nextDirectId = 2
    /\ directMessages = <<>>

\* C22: load never fails.  When the read of a collection fails, the calling
\* operation raises no error and proceeds as if the collection were empty: a
\* group-message send answers 404 and stores nothing, and a group creation, an
\* alert creation and a direct-message send whose write succeeds answer 201
\* and leave the collection holding the new record alone.
C22_LoadFailureIsEmpty ==
    [][/\ \A u \in Users, g \in GroupIds, t \in Contents :
             (\E io \in SendIo : ~io.rg /\ HttpSendMessage(u, g, t, io))
             => (resp' = 404 /\ messages' = messages /\ groups' = groups)
       /\ \A u \in Users :
             (\E io \in GroupIo : ~io.rg /\ io.wg /\ HttpCreateGroup(u, io))
             => (resp' = 201 /\ groups' = <<NewGroup(nextGroupId, u)>>)
       /\ \A u \in Users :
             (\E io \in AlertIo : ~io.re /\ io.we /\ HttpCreateAlert(u, io))
             => (/\ resp' = 201
                 /\ emergency' = <<NewAlert(nextAlertId, u, clock + 1)>>)
       /\ \A u \in Users, r \in Users, t \in Contents :
             (\E io \in DirectIo : ~io.rd /\ io.wd /\ HttpSendDirect(u, r, t, io))
             => (/\ resp' = 201
                 /\ directMessages' =
                       <<NewDirectMessage(nextDirectId, u, r, t)>>)]_vars

\* C22 witness: the second alert creation could not read the collection: it
\* answered 201 and the collection holds the second alert alone.
C22_Witness ==
    /\ faults = 1
    /\ resp = 201
    /\ emitted.event = "emergency-broadcast"
    /\ Len(emergency) = 1
    /\ emergency[1].id = 2

\* The number of entries of the presence table.
TableSize(table) == Cardinality({u \in DOMAIN table : table[u] # NoSocket})

\* C23: an announce of identity u from socket c binds u to c, writes the
\* entry u -> c, and publishes to every connected socket a 'user-status'
\* event for u with status 'online' whose totalOnline is the number of
\* entries of the table after the update, for a first announce and for a
\* re-announce alike.
C23_AnnouncePublishesOnline ==
    [][\A c \in Conns, u \in AnnounceIds :
         UserJoin(c, u) =>
            /\ sockUserId'[c] = u
            /\ connectedUsers'[u] = c
            /\ emitted'.event = "user-status"
            /\ emitted'.state = "online"
            /\ emitted'.userId = u
            /\ emitted'.to = {d \in Conns : status'[d] = "open"}
            /\ emitted'.total = TableSize(connectedUsers')]_vars

\* C23 witness: one socket has announced two users in turn while a second
\* socket is connected: the re-announce was published to both with
\* totalOnline 2.
C23_Witness ==
    /\ emitted.event = "user-status"
    /\ emitted.state = "online"
    /\ emitted.total = 2
    /\ Cardinality(emitted.to) = 2
    /\ \E c \in OpenConns, u \in Users, v \in Users :
          u # v /\ connectedUsers[u] = c /\ connectedUsers[v] = c

\* C24: a disconnect removes the connection's presence entries and publishes
\* to the remaining sockets a 'user-status' event with status 'offline'
\* whose totalOnline is the number of entries left (stated for sockets whose
\* last announce named a user).
C24_DisconnectRemovesAndPublishes ==
    [][\A c \in Conns :
         (Disconnect(c) /\ sockUserId[c] \in Users) =>
            /\ \A u \in Users : connectedUsers'[u] # c
            /\ emitted'.event = "user-status"
            /\ emitted'.state = "offline"
            /\ emitted'.to = {d \in Conns : status'[d] = "open"}
            /\ emitted'.total = TableSize(connectedUsers')]_vars

\* C25: typing and stop-typing events are not persisted.  Handling one
\* leaves every collection of the record store and the presence table as
\* they were and publishes 'user-typing' (isTyping true for typing, false for
\* stop-typing) to exactly the sockets joined to the named group's room.
C25_TypingNotPersisted ==
    [][\A c \in Conns, g \in GroupIds :
         /\ UserTyping(c, g) => emitted'.state = "isTyping"
         /\ UserStopTyping(c, g) => emitted'.state = "notTyping"
         /\ (UserTyping(c, g) \/ UserStopTyping(c, g)) =>
               /\ UNCHANGED <<groups, userGroups, messages, directMessages,
                              emergency, users, connectedUsers, sockUserId>>
               /\ emitted'.event = "user-typing"
               /\ emitted'.to = {d \in OpenConns : <<d, g>> \in subscribed}]_vars

\* C25 witness: a stop-typing notice has just gone to the one socket joined
\* to the group while a second socket is connected outside the room and a
\* message is stored.
C25_Witness ==
    /\ emitted.event = "user-typing"
    /\ emitted.state = "notTyping"
    /\ Cardinality(emitted.to) = 1
    /\ Cardinality(OpenConns) = 2
    /\ messages # <<>>

\* C26: a re-announce of identity u from socket c2 leaves the socket c1 that
\* held u's entry alone: c1 keeps its connection state, its bound identity and
\* its rooms, and receives the global 'user-status' publish when it is
\* connected; of the presence table only u's entry changes, to c2.
C26_ReannounceLeavesPriorSocket ==
    [][\A c2 \in Conns, u \in Users :
         (/\ UserJoin(c2, u)
          /\ connectedUsers[u] # NoSocket
          /\ connectedUsers[u] # c2)
         => LET c1 == connectedUsers[u]
            IN  /\ status'[c1] = status[c1]
                /\ sockUserId'[c1] = sockUserId[c1]
                /\ rooms' = rooms
                /\ status[c1] = "open" => c1 \in emitted'.to
                /\ connectedUsers'[u] = c2
                /\ \A v \in AnnounceIds \ {u} :
                      connectedUsers'[v] = connectedUsers[v]]_vars

\* C26 witness: two connected sockets are bound to the same user, the table
\* holds the second, the first is still in a group room, and the announce of
\* the second has just been published to both.
C26_Witness ==
    \E c1 \in OpenConns, c2 \in OpenConns, u \in Users :
       /\ c1 # c2
       /\ sockUserId[c1] = u /\ sockUserId[c2] = u
       /\ connectedUsers[u] = c2
       /\ \E g \in GroupIds : c1 \in rooms[g]
       /\ emitted.event = "user-status"
       /\ {c1, c2} \subseteq emitted.to

\* The direct message with id `id` in the persisted collection `dms`.
DirectIn(dms, id) == dms[FindIndex(dms, id)]

\* C27: a persisted direct message changes only through its read flag.  It
\* is created with isRead false; in every step in which no read or write
\* fails it stays in the collection with the id, sender, recipient and
\* content it has, a true isRead stays true, and a mark-as-read answered 200
\* leaves isRead true.
C27_OnlyReadFlagChanges ==
    [][/\ \A id \in DirectIds :
             (FindIndex(directMessages, id) = 0 /\ FindIndex(directMessages', id) # 0)
             => ~DirectIn(directMessages', id).isRead
       /\ \A id \in DirectIds :
             (NoFault /\ FindIndex(directMessages, id) # 0)
             => (/\ FindIndex(directMessages', id) # 0
                 /\ DirectIn(directMessages', id).sender =
                       DirectIn(directMessages, id).sender
                 /\ DirectIn(directMessages', id).recipient =
                       DirectIn(directMessages, id).recipient
                 /\ DirectIn(directMessages', id).content =
                       DirectIn(directMessages, id).content
                 /\ DirectIn(directMessages, id).isRead =>
                       DirectIn(directMessages', id).isRead)
       /\ \A u \in Users, id \in DirectIds :
             (/\ NoFault
              /\ \E io \in DirectIo : HttpMarkRead(u, id, io)
              /\ resp' = 200)
             => DirectIn(directMessages', id).isRead]_vars

\* C27 witness: of two stored direct messages the first has been marked as
\* read, the mark-as-read has just been repeated, and the second is unread.
C27_Witness ==
    /\ faults = 0
    /\ resp = 200
    /\ Len(directMessages) = 2
    /\ directMessages[1].isRead
    /\ ~directMessages[2].isRead

\* A register request that was answered 201.
Registered(r) ==
    /\ inflight[r].pc = "done"
    /\ inflight[r].kind = "register"
    /\ inflight[r].status = 201

\* C28: concurrent registrations are not lost.  When two register requests
\* with different emails and different usernames have both been answered
\* 201, and no read or write has failed, both accounts are in the users
\* collection.
C28_RegistrationsNotLost ==
    \A r1 \in Reqs, r2 \in Reqs :
       (/\ r1 # r2
        /\ faults = 0
        /\ Registered(r1) /\ Registered(r2)
        /\ inflight[r1].email # inflight[r2].email
        /\ inflight[r1].username # inflight[r2].username
        /\ \A q \in Reqs : inflight[q].kind # "login")
       => (/\ FindIndex(users, inflight[r1].id) # 0
           /\ FindIndex(users, inflight[r2].id) # 0)

\* C29: a login does not discard other writers' changes.  When a login
\* writes lastLogin back (no read or write failing), every account record
\* that was in the users collection before the write is in it afterwards,
\* unchanged but for the lastLogin of the account that logged in.
C29_LoginKeepsOtherWrites ==
    [][\A r \in Reqs :
         (/\ NoFault
          /\ \E io \in WriteUsersIo : LoginComplete(r, io)
          /\ resp' = 200)
         => \A i \in 1..Len(users) :
               \E j \in 1..Len(users') :
                  /\ users'[j].id = users[i].id
                  /\ [users'[j] EXCEPT !.lastLogin = Null] =
                        [users[i] EXCEPT !.lastLogin = Null]]_vars

\* C30: in every reachable state of the users collection no two account
\* records share an email and no two share a username, under every
\* interleaving of register and login requests.
C30_UniqueEmailAndUsername ==
    \A i \in 1..Len(users), j \in 1..Len(users) :
       i # j => (/\ users[i].email # users[j].email
                 /\ users[i].username # users[j].username)

\* C30 witness: two register requests with the same email were in flight
\* together (the second read the collection before the first wrote it), both
\* have been answered 201, and the collection holds an account.
C30_Witness ==
    \E r1 \in Reqs, r2 \in Reqs :
       /\ r1 # r2
       /\ Registered(r1) /\ Registered(r2)
       /\ inflight[r1].email = inflight[r2].email
       /\ inflight[r1].users = inflight[r2].users
       /\ users # <<>>

\* C32: an append never removes persisted records.  After a group-message
\* send, an alert creation, a direct-message send or a group creation, every
\* record that was in the operation's collection before it is still there,
\* even when the operation's read of the collection failed.
C32_AppendKeepsRecords ==
    [][/\ \A u \in Users, g \in GroupIds, t \in Contents :
             (\E io \in SendIo : HttpSendMessage(u, g, t, io))
             => \A i \in 1..Len(messages) :
                   \E j \in 1..Len(messages') : messages'[j] = messages[i]
       /\ \A u \in Users :
             (\E io \in AlertIo : HttpCreateAlert(u, io))
             => \A i \in 1..Len(emergency) :
                   \E j \in 1..Len(emergency') : emergency'[j] = emergency[i]
       /\ \A u \in Users, r \in Users, t \in Contents :
             (\E io \in DirectIo : HttpSendDirect(u, r, t, io))
             => \A i \in 1..Len(directMessages) :
                   \E j \in 1..Len(directMessages') :
                      directMessages'[j] = directMessages[i]
       /\ \A u \in Users :
             (\E io \in GroupIo : HttpCreateGroup(u, io))
             => \A i \in 1..Len(groups) :
                   \E j \in 1..Len(groups') : groups'[j] = groups[i]]_vars

\* C33: an alert is changed only by its own user.  A resolve or cancel
\* request for an existing alert, sent by a user other than the alert's
\* userId, is answered 404 and leaves the emergency collection as it was
\* (stated for runs in which no read or write fails).
C33_OnlyOwnerChangesAlert ==
    [][\A u \in Users, a \in AlertIds :
         (/\ faults = 0 /\ NoFault
          /\ FindIndex(emergency, a) # 0
          /\ AlertIn(emergency, a).userId # u
          /\ \E io \in AlertIo :
                HttpResolveAlert(u, a, io) \/ HttpCancelAlert(u, a, io))
         => (resp' = 404 /\ emergency' = emergency)]_vars

\* C34: in every persisted state of the groups collection, each group's
\* creator is in its members and each of its moderators is in its members
\* (stated for runs in which no read or write fails).
C34_ModeratorsAreMembers ==
    faults = 0 => \A i \in 1..Len(groups) :
       /\ Includes(groups[i].members, groups[i].creator)
       /\ \A k \in 1..Len(groups[i].moderators) :
             Includes(groups[i].members, groups[i].moderators[k])

\* C31: membership is recorded consistently in both collections.  Whenever
\* no register or login request is in flight, for every account U of the
\* users collection and every group G, G's id is in U's communityGroups
\* exactly when U's id is in G's members.
C31_MembershipConsistent ==
    (\A r \in Reqs : inflight[r].pc # "await") =>
       \A u \in Users, g \in GroupIds :
          Authenticated(u) =>
             (Includes(userGroups[u], g) <=> MemberIn(groups, u, g))

\* C35: no inbound event stops the dispatcher.  A typing, stop-typing,
\* emergency-alert or direct-message event with a missing or malformed
\* payload raises no uncaught exception: the process keeps running, every
\* connection stays as it was, and nothing is delivered to any connection.
C35_MalformedEventHarmless ==
    [][(\E c \in Conns, e \in UnguardedEvents : MalformedPayload(c, e))
         => (running' /\ status' = status /\ emitted'.to = {})]_vars
====
